---- MODULE Spec2Model ----
(***************************************************************************)
(* bfint: a brainf*ck interpreter.                                         *)
(*   Program::compile      tokens -> instructions with resolved jumps      *)
(*   Interpreter           step / run state machine with Waiting statuses  *)
(*   VirtualMachine        executor with inline I/O and an overflow policy *)
(* Addresses (pc, jump targets, mp, token indices) are 0-based as in the   *)
(* source; TLA+ sequences are 1-based, so index k lives at position k+1.   *)
(***************************************************************************)
EXTENDS Integers, Sequences, FiniteSets, TLC

VARIABLES
    \* Tokenizer (token.rs)
    source,              \* the text handed to Tokenizer::read
    reader,              \* what the BufReader has not handed out yet
    chars,               \* Tokenizer.chars, the line being scanned
    current_line_n,      \* Tokenizer.current_line_n
    current_char_n,      \* Tokenizer.current_char_n
    yielded,             \* the items next() has returned to the for loop
    scan_end,            \* next() has returned None
    \* Program::compile (program.rs)
    tokens,              \* the token stream handed to compile
    tok_i,               \* enumerate() index of the next token
    instructions,        \* Vec<Instruction> under construction
    open_bracket_stack,  \* Vec<usize> of pending '[' positions
    result,              \* what compile returned (Pending while in the loop)
    \* Interpreter (interpreter.rs)
    program,             \* Interpreter.program.instructions
    env_memory,          \* Environment.memory
    env_mp,              \* Environment.mp
    env_pc,              \* Environment.pc
    status,              \* Interpreter.status
    inrun,               \* control is inside Interpreter::run's loop
    \* VirtualMachine (virtualmachine.rs)
    vm_memory,           \* VirtualMachine.memory
    vm_mp,               \* VirtualMachine.mp
    vm_pc,               \* VirtualMachine.pc
    vm_status,           \* VirtualMachine.status
    behavior,            \* settings.memory_overflow_behavior
    vm_steps,            \* execute_instruction calls made so far
    \* the collaborators and the process, shared by both machines
    output,              \* bytes received by the output sink
    in_count,            \* bytes handed out by the input source so far
    in_eof,              \* the input source has reported its end
    exited,              \* an Exit instruction has been executed (since reset)
    build,               \* "debug" (overflow checks on) or "release" (wrapping)
    panic,               \* "none", or why the thread panicked
    last                 \* the call that produced this state and its outcome

vars == <<source, reader, chars, current_line_n, current_char_n, yielded,
          scan_end, tokens, tok_i, instructions, open_bracket_stack, result,
          program, env_memory, env_mp, env_pc, status, output, in_count,
          in_eof, inrun, exited,
          vm_memory, vm_mp, vm_pc, vm_status, behavior, vm_steps,
          build, panic, last>>

scanVars    == <<source, reader, chars, current_line_n, current_char_n, yielded,
                 scan_end>>
compileVars == <<tokens, tok_i, instructions, open_bracket_stack, result>>
interpVars  == <<program, env_memory, env_mp, env_pc, status, inrun>>
vmVars      == <<vm_memory, vm_mp, vm_pc, vm_status, behavior, vm_steps>>
ioVars      == <<output, in_count, in_eof, exited>>

----------------------------------------------------------------------------
(* Bounds *)
MaxTokens == 4      \* longest token stream given to compile
MaxProg   == 3      \* longest source run by the Interpreter
MemSize   == 2      \* tape length (with_memory / settings.memory_size)
MaxInput  == 2      \* bytes the input source holds at most
MaxOut    == 3      \* bytes the output sink is followed for
MaxVmSteps == 2     \* execute_instruction calls followed on a VirtualMachine
MaxSrc    == 4      \* longest source text handed to the Tokenizer

(* Program constants *)
ByteMod  == 256     \* u8
Newline  == 10      \* '\n' as u8
Utf8Two  == 128     \* first code point char's Display encodes in two bytes

Bytes   == 0 .. (ByteMod - 1)
InBytes == {0, Newline, 65, 200, 255}   \* bytes the input source may hold

----------------------------------------------------------------------------
(* token.rs: TokenKind *)
TokenKind == {"Plus", "Minus", "LeftBrace", "RightBrace", "Dot", "Comma",
              "LeftBracket", "RightBracket"}

RECURSIVE SeqsUpTo(_, _)
SeqsUpTo(S, n) ==
    IF n = 0 THEN {<<>>}
    ELSE LET shorter == SeqsUpTo(S, n - 1)
         IN  shorter \cup {Append(s, x) : s \in {t \in shorter : Len(t) = n - 1}, x \in S}

(* The record kept in `last` for a call and its outcome *)
Call(op, ins, addr, res, bytes) ==
    [op |-> op, ins |-> ins, addr |-> addr, res |-> res, bytes |-> bytes]

(* 0-based indexing into a Vec *)
At(v, k) == v[k + 1]

(* Characters.  A source is a sequence of one-character strings. *)
Symbols    == {"+", "-", "<", ">", ".", ",", "[", "]"}
Whitespace == {" ", "\n"}                      \* char::is_whitespace
SrcChars   == {"+", ".", "#", " ", "\n", "x"}  \* the characters sources are drawn from
TokenConversion == <<"+", "-", "[", "]", "<", ">", ".", ",">>  \* the test's source

(* What next() can return: None, Some(Ok(Token)), or Some(Err(e)) where e is
   the message "Invalid character: '{}'" with `args` the values formatted
   into it. *)
None == [tag |-> "None"]
Token(kind, row, col) == [tag |-> "Token", kind |-> kind, row |-> row, col |-> col]
InvalidCharacter(c) ==
    [tag |-> "Err", msg |-> "Invalid character: '" \o c \o "'", args |-> <<c>>]

(* TokenKind::from_char *)
TokenKindFromChar(c) ==
    CASE c = "+" -> [ok |-> TRUE, kind |-> "Plus"]
      [] c = "-" -> [ok |-> TRUE, kind |-> "Minus"]
      [] c = "<" -> [ok |-> TRUE, kind |-> "LeftBrace"]
      [] c = ">" -> [ok |-> TRUE, kind |-> "RightBrace"]
      [] c = "." -> [ok |-> TRUE, kind |-> "Dot"]
      [] c = "," -> [ok |-> TRUE, kind |-> "Comma"]
      [] c = "[" -> [ok |-> TRUE, kind |-> "LeftBracket"]
      [] c = "]" -> [ok |-> TRUE, kind |-> "RightBracket"]
      [] OTHER   -> [ok |-> FALSE, kind |-> ""]

(* Mutant: row and col change places. *)
TokenFromCharSwapped(c, row, col) ==
    IF TokenKindFromChar(c).ok
    THEN Token(TokenKindFromChar(c).kind, col, row)
    ELSE InvalidCharacter(c)

(* Token::from_char: TokenKind::from_char(c)? wrapped with row and col *)
TokenFromChar(c, row, col) ==
    IF TokenKindFromChar(c).ok
    THEN Token(TokenKindFromChar(c).kind, row, col)
    ELSE InvalidCharacter(c)

(* Tokenizer::read(source): the Tokenizer as a record of its fields *)
TokenizerRead(src) ==
    [reader |-> src, chars |-> <<>>, current_line_n |-> 0, current_char_n |-> 0]

(* BufRead::read_line: the length of the next line, its "\n" included *)
LineLen(r) ==
    IF \E k \in 1 .. Len(r) : r[k] = "\n"
    THEN CHOOSE k \in 1 .. Len(r) : r[k] = "\n" /\ \A j \in 1 .. (k - 1) : r[j] # "\n"
    ELSE Len(r)

(* Tokenizer::read_next_line on a readable text: Ok(false) at the end of the
   source, else the line becomes chars and Ok(true). *)
ReadNextLine(t) ==
    IF t.reader = <<>>
    THEN [ok |-> FALSE, t |-> t]
    ELSE [ok |-> TRUE,
          t  |-> [reader |-> SubSeq(t.reader, LineLen(t.reader) + 1, Len(t.reader)),
                  chars |-> SubSeq(t.reader, 1, LineLen(t.reader)),
                  current_char_n |-> 0,
                  current_line_n |-> t.current_line_n + 1]]

(* Mutant: only the marker itself is skipped. *)
SkipCommentMarkerOnly(t) == [ok |-> TRUE, t |-> t]

(* What next() does on meeting '#': the rest of the line is dropped. *)
SkipComment(t) == ReadNextLine(t)

(* Iterator::next for Tokenizer: [t, item] *)
RECURSIVE IteratorNext(_)
IteratorNext(t) ==
    LET char_n == t.current_char_n
        t1 == [t EXCEPT !.current_char_n = @ + 1]
    IN  IF char_n < Len(t.chars)
        THEN LET c == At(t.chars, char_n)
             IN  IF c \in Whitespace THEN IteratorNext(t1)
                 ELSE IF c = "#"
                 THEN LET r == SkipComment(t1)
                      IN  IF r.ok THEN IteratorNext(r.t)
                          ELSE [t |-> r.t, item |-> None]
                 ELSE [t |-> t1,
                       item |-> TokenFromChar(c, t1.current_line_n, t1.current_char_n)]
        ELSE LET r == ReadNextLine(t1)
             IN  IF r.ok THEN IteratorNext(r.t)
                 ELSE [t |-> r.t, item |-> None]

(* program.rs: Instruction.  addr is meaningful for JZ / JNZ only. *)
Ins(op)      == [op |-> op, addr |-> 0]
Jmp(op, a)   == [op |-> op, addr |-> a]

ErrNoMatching == "No matching '['"
ErrUnmatched  == "Unmatched '['"

Pending      == [tag |-> "Pending", program |-> <<>>, msg |-> ""]
Ok(p)        == [tag |-> "Ok", program |-> p, msg |-> ""]
Err(m)       == [tag |-> "Err", program |-> <<>>, msg |-> m]

(* Mutant: the '[' is patched to jump onto its ']' instead of past it. *)
PatchTargetAtClose(i) == i

(* The target patched into the '[' instruction when its ']' is token i. *)
PatchTarget(i) == i + 1

(* The instruction pushed for a ']' whose partner sits at open_bracket_pos. *)
CloseInstruction(open_bracket_pos) == Jmp("JNZ", open_bracket_pos)

(* One iteration of compile's for loop on token kind k at index i, from the
   loop state st = [ins, stack, res]. *)
CompileToken(st, i, k) ==
    CASE k = "RightBrace"  -> [st EXCEPT !.ins = Append(@, Ins("IncPtr"))]
      [] k = "LeftBrace"   -> [st EXCEPT !.ins = Append(@, Ins("DecPtr"))]
      [] k = "Plus"        -> [st EXCEPT !.ins = Append(@, Ins("IncData"))]
      [] k = "Minus"       -> [st EXCEPT !.ins = Append(@, Ins("DecData"))]
      [] k = "Dot"         -> [st EXCEPT !.ins = Append(@, Ins("Output"))]
      [] k = "Comma"       -> [st EXCEPT !.ins = Append(@, Ins("Input"))]
      [] k = "LeftBracket" ->
            [st EXCEPT !.stack = Append(@, i),
                       !.ins = Append(@, Jmp("JZ", 0))]
      [] k = "RightBracket" ->
            IF st.stack # <<>>
            THEN LET open_bracket_pos == st.stack[Len(st.stack)]
                     patched == [st.ins EXCEPT ![open_bracket_pos + 1] =
                                     Jmp("JZ", PatchTarget(i))]
                 IN  [st EXCEPT !.stack = SubSeq(@, 1, Len(@) - 1),
                                !.ins = Append(patched,
                                               CloseInstruction(open_bracket_pos))]
            ELSE [st EXCEPT !.res = Err(ErrNoMatching)]

(* Mutant: the trailing Exit is not pushed. *)
CompileFinishNoExit(st) ==
    IF st.stack # <<>>
    THEN [st EXCEPT !.res = Err(ErrUnmatched)]
    ELSE [st EXCEPT !.res = Ok(st.ins)]

(* Mutant: the pending-bracket check after the loop is missing. *)
CompileFinishUnchecked(st) ==
    [st EXCEPT !.ins = Append(@, Ins("Exit")),
               !.res = Ok(Append(st.ins, Ins("Exit")))]

(* What compile does once the token stream is exhausted. *)
CompileFinish(st) ==
    IF st.stack # <<>>
    THEN [st EXCEPT !.res = Err(ErrUnmatched)]
    ELSE [st EXCEPT !.ins = Append(@, Ins("Exit")),
                    !.res = Ok(Append(st.ins, Ins("Exit")))]

RECURSIVE CompileFrom(_, _, _)
CompileFrom(st, toks, i) ==
    IF st.res.tag # "Pending" THEN st.res
    ELSE IF i >= Len(toks) THEN CompileFinish(st).res
    ELSE CompileFrom(CompileToken(st, i, At(toks, i)), toks, i + 1)

(* Program::compile as a function of the token stream. *)
Compile(toks) == CompileFrom([ins |-> <<>>, stack |-> <<>>, res |-> Pending], toks, 0)

(* compile's for loop drawing its tokens from Tokenizer t, i the enumerate()
   index: `token?` returns the first error item as compile's own error. *)
RECURSIVE CompileTokens(_, _, _)
CompileTokens(st, t, i) ==
    LET n == IteratorNext(t)
    IN  IF n.item.tag = "None" THEN CompileFinish(st).res
        ELSE IF n.item.tag = "Err" THEN Err(n.item.msg)
        ELSE LET st2 == CompileToken(st, i, n.item.kind)
             IN  IF st2.res.tag # "Pending" THEN st2.res
                 ELSE CompileTokens(st2, n.t, i + 1)

(* Program::compile(source) *)
CompileSource(src) ==
    CompileTokens([ins |-> <<>>, stack |-> <<>>, res |-> Pending],
                  TokenizerRead(src), 0)

----------------------------------------------------------------------------
(* The Tokenizer driven by a for loop *)

Tokenizer == [reader |-> reader, chars |-> chars,
              current_line_n |-> current_line_n, current_char_n |-> current_char_n]

InitTokenizer(srcs) ==
    /\ source \in srcs
    /\ reader = TokenizerRead(source).reader
    /\ chars = TokenizerRead(source).chars
    /\ current_line_n = TokenizerRead(source).current_line_n
    /\ current_char_n = TokenizerRead(source).current_char_n
    /\ yielded = <<>>
    /\ scan_end = FALSE

(* one turn of `for token in Tokenizer::read(source)`: a call of next() *)
TokenizerNext ==
    /\ ~scan_end
    /\ LET n == IteratorNext(Tokenizer)
       IN  /\ reader' = n.t.reader
           /\ chars' = n.t.chars
           /\ current_line_n' = n.t.current_line_n
           /\ current_char_n' = n.t.current_char_n
           /\ yielded' = IF n.item.tag = "None" THEN yielded ELSE Append(yielded, n.item)
           /\ scan_end' = (n.item.tag = "None")
           /\ last' = Call("next", "", 0, n.item.tag, <<>>)
    /\ UNCHANGED <<source, compileVars, interpVars, vmVars, ioVars, build, panic>>

(* Program::compile on the same source, with a Tokenizer of its own *)
CompileCall ==
    /\ scan_end
    /\ result.tag = "Pending"
    /\ result' = CompileSource(source)
    /\ last' = Call("compile", "", 0, CompileSource(source).tag, <<>>)
    /\ UNCHANGED <<scanVars, tokens, tok_i, instructions, open_bracket_stack,
                   interpVars, vmVars, ioVars, build, panic>>

----------------------------------------------------------------------------
(* Program::compile as a loop *)

CompileState == [ins |-> instructions, stack |-> open_bracket_stack, res |-> result]

InitCompile ==
    /\ tokens \in SeqsUpTo(TokenKind, MaxTokens)
    /\ tok_i = 0
    /\ instructions = <<>>
    /\ open_bracket_stack = <<>>
    /\ result = Pending

CompileNext ==
    /\ result.tag = "Pending"
    /\ tok_i < Len(tokens)
    /\ LET st == CompileToken(CompileState, tok_i, At(tokens, tok_i))
       IN  /\ instructions' = st.ins
           /\ open_bracket_stack' = st.stack
           /\ result' = st.res
    /\ tok_i' = tok_i + 1
    /\ last' = [op |-> "compile_token", ins |-> At(tokens, tok_i), addr |-> tok_i,
                res |-> "Ok", bytes |-> <<>>]
    /\ UNCHANGED <<scanVars, tokens, interpVars, vmVars, ioVars, build, panic>>

CompileEnd ==
    /\ result.tag = "Pending"
    /\ tok_i >= Len(tokens)
    /\ LET st == CompileFinish(CompileState)
       IN  /\ instructions' = st.ins
           /\ result' = st.res
    /\ last' = [op |-> "compile_end", ins |-> "", addr |-> tok_i,
                res |-> "Ok", bytes |-> <<>>]
    /\ UNCHANGED <<scanVars, tokens, tok_i, open_bracket_stack, interpVars, vmVars,
                   ioVars, build, panic>>

----------------------------------------------------------------------------
(* Pieces shared by Interpreter and VirtualMachine *)

(* Vec indexing: memory[mp] panics unless 0 <= mp < len.  mp is a usize; it
   is held as the representative of its value mod 2^64 nearest to zero, so
   usize::MAX is -1, and every negative value is an address past any tape. *)
InBounds(mem, mp) == mp >= 0 /\ mp < Len(mem)

(* u8 `+= 1` / `-= 1`: the value a release build stores, and whether a debug
   build panics with "attempt to add/subtract with overflow" instead. *)
WrappingAdd(v) == (v + 1) % ByteMod
WrappingSub(v) == (v + ByteMod - 1) % ByteMod
AddOverflows(v) == v + 1 > ByteMod - 1
SubOverflows(v) == v - 1 < 0

(* memory[mp] += 1 and memory[mp] -= 1: [panic, mem] *)
MemInc(mem, mp, b) ==
    IF ~InBounds(mem, mp) THEN [panic |-> "index", mem |-> mem]
    ELSE IF AddOverflows(At(mem, mp)) /\ b = "debug"
         THEN [panic |-> "overflow", mem |-> mem]
    ELSE [panic |-> "none", mem |-> [mem EXCEPT ![mp + 1] = WrappingAdd(@)]]

MemDec(mem, mp, b) ==
    IF ~InBounds(mem, mp) THEN [panic |-> "index", mem |-> mem]
    ELSE IF SubOverflows(At(mem, mp)) /\ b = "debug"
         THEN [panic |-> "overflow", mem |-> mem]
    ELSE [panic |-> "none", mem |-> [mem EXCEPT ![mp + 1] = WrappingSub(@)]]

(* write!(output, "{}", data as char): the bytes of the char's UTF-8 form *)
Encode(data) ==
    IF data < Utf8Two THEN <<data>>
    ELSE <<192 + (data \div 64), 128 + (data % 64)>>

(* usize `mp += 1` / `mp -= 1` with no bound check: [panic, mp] *)
UncheckedInc(mp, b) ==
    IF mp = -1 /\ b = "debug" THEN [panic |-> "overflow", mp |-> mp]
    ELSE [panic |-> "none", mp |-> mp + 1]

UncheckedDec(mp, b) ==
    IF mp = 0 /\ b = "debug" THEN [panic |-> "overflow", mp |-> mp]
    ELSE [panic |-> "none", mp |-> mp - 1]

(* The outcomes of read_byte(true) on a source that has handed out `count`
   bytes: [kind, byte, taken, eof].
     "byte"  the first byte that is not a newline, after `taken - 1` newlines;
             or 0, the untouched buffer, when the very first read is at the
             end of the source
     "spin"  newlines and then the end of the source: read() returns Ok(0),
             the buffer keeps the newline and the while loop never exits
     "error" a read() returned Err *)
ReadByteOutcomes(count, eof) ==
    {[kind |-> "byte", byte |-> 0, taken |-> 0, eof |-> TRUE]}
    \cup {[kind |-> "error", byte |-> 0, taken |-> k, eof |-> eof] :
             k \in IF eof THEN {0} ELSE 0 .. (MaxInput - count)}
    \cup (IF eof THEN {} ELSE
          {[kind |-> "byte", byte |-> b, taken |-> k + 1, eof |-> FALSE] :
              k \in 0 .. (MaxInput - count - 1), b \in InBytes \ {Newline}}
          \cup {[kind |-> "spin", byte |-> Newline, taken |-> k, eof |-> TRUE] :
              k \in 1 .. (MaxInput - count)})

----------------------------------------------------------------------------
(* Interpreter (interpreter.rs) *)

ZeroTape(n) == [k \in 1 .. n |-> 0]

(* Interpreter::new(source).with_memory(MemSize): a compiled program, a zeroed
   tape, Idle. *)
InitInterpreter ==
    /\ tokens \in {t \in SeqsUpTo(TokenKind, MaxProg) : Compile(t).tag = "Ok"}
    /\ tok_i = Len(tokens)
    /\ result = Compile(tokens)
    /\ instructions = result.program
    /\ open_bracket_stack = <<>>
    /\ program = result.program
    /\ env_memory = ZeroTape(MemSize)
    /\ env_mp = 0
    /\ env_pc = 0
    /\ status = "Idle"
    /\ output = <<>>
    /\ in_count = 0
    /\ in_eof = FALSE
    /\ inrun = FALSE
    /\ exited = FALSE
    /\ build \in {"debug", "release"}
    /\ panic = "none"
    /\ last = Call("new", "", 0, "Ok", <<>>)

(* The status Interpreter::startup stores, given the current one. *)
StartupStatus(cur) == "Running"

(* The status step stores for an Exit instruction. *)
ExitStatus == "Idle"

(* The program counter step stores after a suspending instruction (Output,
   Input) or Exit fetched at pc: `self.env.pc = next_pc` runs on every path. *)
PcAfterSuspend(pc) == pc + 1

(* The status the run loop stores once a pending input or output is served. *)
ServedStatus == "Running"

(* The byte run hands to write_byte for a pending output. *)
OutputByte(mem, mp) == At(mem, mp)

(* Mutant: the byte is stored in cell 0 whatever the data pointer. *)
MemWrFirstCell(mem, mp, val) == [mem EXCEPT ![1] = val]

(* The tape after run's mem_wr(input). *)
MemWr(mem, mp, val) == [mem EXCEPT ![mp + 1] = val]

(* Whether step refuses to execute in status st. *)
StepRefuses(st) == st # "Running"

(* The target a taken jump stores into next_pc. *)
JumpTarget(instruction) == instruction.addr

(* Interpreter::step, lines 71-105.  `op` names the caller for `last`. *)
StepBody ==
    IF StepRefuses(status)
    THEN /\ last' = Call("step", "", env_pc, "Err", <<>>)
         /\ UNCHANGED <<program, env_memory, env_mp, env_pc, status, output,
                        in_count, in_eof, exited, panic>>
    ELSE IF env_pc >= Len(program)
    THEN \* self.program.instruction(pc): index out of bounds
         /\ panic' = "index"
         /\ last' = Call("step", "", env_pc, "Panic", <<>>)
         /\ UNCHANGED <<program, env_memory, env_mp, env_pc, status, output,
                        in_count, in_eof, exited>>
    ELSE
    LET instruction == At(program, env_pc)
        next_pc == env_pc + 1
        done(p) == last' = Call("step", instruction.op, env_pc,
                                IF p = "none" THEN "Ok" ELSE "Panic", <<>>)
    IN  CASE instruction.op = "IncPtr" ->
               LET r == UncheckedInc(env_mp, build)
               IN  /\ panic' = r.panic
                   /\ env_mp' = r.mp
                   /\ env_pc' = IF r.panic = "none" THEN next_pc ELSE env_pc
                   /\ done(r.panic)
                   /\ UNCHANGED <<program, env_memory, status, output,
                                  in_count, in_eof, exited>>
          [] instruction.op = "DecPtr" ->
               LET r == UncheckedDec(env_mp, build)
               IN  /\ panic' = r.panic
                   /\ env_mp' = r.mp
                   /\ env_pc' = IF r.panic = "none" THEN next_pc ELSE env_pc
                   /\ done(r.panic)
                   /\ UNCHANGED <<program, env_memory, status, output,
                                  in_count, in_eof, exited>>
          [] instruction.op = "IncData" ->
               LET r == MemInc(env_memory, env_mp, build)
               IN  /\ panic' = r.panic
                   /\ env_memory' = r.mem
                   /\ env_pc' = IF r.panic = "none" THEN next_pc ELSE env_pc
                   /\ done(r.panic)
                   /\ UNCHANGED <<program, env_mp, status, output,
                                  in_count, in_eof, exited>>
          [] instruction.op = "DecData" ->
               LET r == MemDec(env_memory, env_mp, build)
               IN  /\ panic' = r.panic
                   /\ env_memory' = r.mem
                   /\ env_pc' = IF r.panic = "none" THEN next_pc ELSE env_pc
                   /\ done(r.panic)
                   /\ UNCHANGED <<program, env_mp, status, output,
                                  in_count, in_eof, exited>>
          [] instruction.op = "Output" ->
               /\ status' = "WaitingOutput"
               /\ env_pc' = PcAfterSuspend(env_pc)
               /\ done("none")
               /\ UNCHANGED <<program, env_memory, env_mp, output,
                              in_count, in_eof, exited, panic>>
          [] instruction.op = "Input" ->
               /\ status' = "WaitingInput"
               /\ env_pc' = PcAfterSuspend(env_pc)
               /\ done("none")
               /\ UNCHANGED <<program, env_memory, env_mp, output,
                              in_count, in_eof, exited, panic>>
          [] instruction.op \in {"JNZ", "JZ"} ->
               IF ~InBounds(env_memory, env_mp)
               THEN \* mem_rd(): index out of bounds
                    /\ panic' = "index"
                    /\ done("index")
                    /\ UNCHANGED <<program, env_memory, env_mp, env_pc, status,
                                   output, in_count, in_eof, exited>>
               ELSE LET zero == At(env_memory, env_mp) = 0
                        taken == IF instruction.op = "JNZ" THEN ~zero ELSE zero
                    IN  /\ env_pc' = IF taken THEN JumpTarget(instruction)
                                     ELSE next_pc
                        /\ done("none")
                        /\ UNCHANGED <<program, env_memory, env_mp, status,
                                       output, in_count, in_eof, exited, panic>>
          [] instruction.op = "Exit" ->
               /\ status' = ExitStatus
               /\ exited' = TRUE
               /\ env_pc' = PcAfterSuspend(env_pc)
               /\ done("none")
               /\ UNCHANGED <<program, env_memory, env_mp, output,
                              in_count, in_eof, panic>>

Alive == panic = "none"

(* Interpreter::startup, called by the driver *)
Startup ==
    /\ Alive /\ ~inrun
    /\ status' = StartupStatus(status)
    /\ last' = Call("startup", "", env_pc, "Ok", <<>>)
    /\ UNCHANGED <<scanVars, compileVars, vmVars, build, panic, program, env_memory,
                   env_mp, env_pc, output, in_count, in_eof, inrun, exited>>

(* Interpreter::step, called by the driver *)
Step ==
    /\ Alive /\ ~inrun
    /\ StepBody
    /\ UNCHANGED <<scanVars, compileVars, vmVars, build, inrun>>

(* Interpreter::run up to its loop: startup() and enter the loop *)
Run ==
    /\ Alive /\ ~inrun
    /\ status' = StartupStatus(status)
    /\ inrun' = TRUE
    /\ last' = Call("run", "", env_pc, "Ok", <<>>)
    /\ UNCHANGED <<scanVars, compileVars, vmVars, build, panic, program, env_memory,
                   env_mp, env_pc, output, in_count, in_eof, exited>>

(* run's loop, arm Running: self.step()? *)
RunStep ==
    /\ Alive /\ inrun
    /\ status = "Running"
    /\ StepBody
    /\ UNCHANGED <<scanVars, compileVars, vmVars, build, inrun>>

(* run's loop, arm Idle: break, and run returns Ok(()) *)
RunBreak ==
    /\ Alive /\ inrun
    /\ status = "Idle"
    /\ inrun' = FALSE
    /\ last' = Call("run_return", "", env_pc, "Ok", <<>>)
    /\ UNCHANGED <<scanVars, compileVars, vmVars, build, panic, program, env_memory,
                   env_mp, env_pc, status, output, in_count, in_eof, exited>>

(* run's loop, arm Waiting(Input): read_byte(true)?, mem_wr, Running *)
RunInput ==
    /\ Alive /\ inrun
    /\ status = "WaitingInput"
    /\ \E r \in ReadByteOutcomes(in_count, in_eof) :
          /\ in_count' = in_count + r.taken
          /\ in_eof' = r.eof
          /\ CASE r.kind = "error" ->
                    /\ inrun' = FALSE
                    /\ last' = Call("run_input", "", env_pc, "Err", <<>>)
                    /\ UNCHANGED <<env_memory, status, panic>>
               [] r.kind = "spin" ->
                    /\ panic' = "spin"
                    /\ last' = Call("run_input", "", env_pc, "Spin", <<>>)
                    /\ UNCHANGED <<env_memory, status, inrun>>
               [] r.kind = "byte" /\ ~InBounds(env_memory, env_mp) ->
                    /\ panic' = "index"
                    /\ last' = Call("run_input", "", env_pc, "Panic", <<r.byte>>)
                    /\ UNCHANGED <<env_memory, status, inrun>>
               [] r.kind = "byte" /\ InBounds(env_memory, env_mp) ->
                    /\ env_memory' = MemWr(env_memory, env_mp, r.byte)
                    /\ status' = ServedStatus
                    /\ last' = Call("run_input", "", env_pc, "Ok", <<r.byte>>)
                    /\ UNCHANGED <<panic, inrun>>
    /\ UNCHANGED <<scanVars, compileVars, vmVars, build, program, env_mp, env_pc,
                   output, exited>>

(* run's loop, arm Waiting(Output): write_byte(mem_rd())?, Running *)
RunOutput ==
    /\ Alive /\ inrun
    /\ status = "WaitingOutput"
    /\ Len(output) < MaxOut
    /\ IF ~InBounds(env_memory, env_mp)
       THEN /\ panic' = "index"
            /\ last' = Call("run_output", "", env_pc, "Panic", <<>>)
            /\ UNCHANGED <<status, output, inrun>>
       ELSE \/ /\ output' = output \o Encode(OutputByte(env_memory, env_mp))
               /\ status' = ServedStatus
               /\ last' = Call("run_output", "", env_pc, "Ok",
                               Encode(OutputByte(env_memory, env_mp)))
               /\ UNCHANGED <<panic, inrun>>
            \/ /\ inrun' = FALSE
               /\ last' = Call("run_output", "", env_pc, "Err", <<>>)
               /\ UNCHANGED <<status, output, panic>>
    /\ UNCHANGED <<scanVars, compileVars, vmVars, build, program, env_memory, env_mp,
                   env_pc, in_count, in_eof, exited>>

----------------------------------------------------------------------------
(* VirtualMachine (virtualmachine.rs) *)

MemoryOverflowBehavior == {"Unchecked", "Saturate", "Wrap"}

(* The instructions a driver may hand to execute_instruction *)
JumpAddrs == 0 .. 2
Instruction ==
    {Ins(op) : op \in {"IncPtr", "DecPtr", "IncData", "DecData", "Output",
                       "Input", "Exit"}}
    \cup {Jmp(op, a) : op \in {"JNZ", "JZ"}, a \in JumpAddrs}

(* VirtualMachine::with_settings *)
InitVM ==
    /\ \E n \in 1 .. MemSize : vm_memory = ZeroTape(n)
    /\ vm_mp = 0
    /\ vm_pc = 0
    /\ vm_status = "Idle"
    /\ behavior \in MemoryOverflowBehavior
    /\ vm_steps = 0

(* Mutant: Saturate compares with len instead of len - 1. *)
IncMpSaturateLate(mp, len, policy, b) ==
    CASE policy = "Unchecked" -> UncheckedInc(mp, b)
      [] policy = "Saturate" ->
            [panic |-> "none", mp |-> IF mp < len THEN mp + 1 ELSE mp]
      [] policy = "Wrap" ->
            [panic |-> "none", mp |-> IF mp + 1 >= len THEN 0 ELSE mp + 1]

(* Mutant: Wrap steps back from cell 0 onto len instead of len - 1. *)
DecMpWrapPastEnd(mp, len, policy, b) ==
    CASE policy = "Unchecked" -> UncheckedDec(mp, b)
      [] policy = "Saturate" ->
            [panic |-> "none", mp |-> IF mp > 0 THEN mp - 1 ELSE mp]
      [] policy = "Wrap" ->
            [panic |-> "none", mp |-> IF mp > 0 THEN mp - 1 ELSE len]

(* inc_mp / dec_mp: [panic, mp] *)
IncMp(mp, len, policy, b) ==
    CASE policy = "Unchecked" -> UncheckedInc(mp, b)
      [] policy = "Saturate" ->
            [panic |-> "none", mp |-> IF mp < len - 1 THEN mp + 1 ELSE mp]
      [] policy = "Wrap" ->
            IF mp = -1 /\ b = "debug" THEN [panic |-> "overflow", mp |-> mp]
            ELSE [panic |-> "none", mp |-> IF mp + 1 >= len THEN 0 ELSE mp + 1]

DecMp(mp, len, policy, b) ==
    CASE policy = "Unchecked" -> UncheckedDec(mp, b)
      [] policy = "Saturate" ->
            [panic |-> "none", mp |-> IF mp > 0 THEN mp - 1 ELSE mp]
      [] policy = "Wrap" ->
            [panic |-> "none", mp |-> IF mp > 0 THEN mp - 1 ELSE len - 1]

(* Whether execute_instruction refuses to run in status st: it never looks. *)
ExecuteRefuses(st) == FALSE

(* Whether wakeup refuses in status st. *)
WakeupRefuses(st) == st # "Idle"

(* VirtualMachine::wakeup *)
Wakeup ==
    /\ Alive
    /\ IF WakeupRefuses(vm_status)
       THEN /\ last' = Call("wakeup", "", vm_pc, "Err", <<>>)
            /\ UNCHANGED vm_status
       ELSE /\ vm_status' = "Running"
            /\ last' = Call("wakeup", "", vm_pc, "Ok", <<>>)
    /\ UNCHANGED <<scanVars, compileVars, interpVars, ioVars, build, panic,
                   vm_memory, vm_mp, vm_pc, behavior, vm_steps>>

(* Mutant: reset forgets reset_memory. *)
ResetKeepsTape ==
    /\ Alive
    /\ vm_pc' = 0
    /\ vm_mp' = 0
    /\ vm_status' = "Idle"
    /\ exited' = FALSE
    /\ last' = Call("reset", "", vm_pc, "Ok", <<>>)
    /\ UNCHANGED <<scanVars, compileVars, interpVars, output, in_count, in_eof, build,
                   panic, vm_memory, behavior, vm_steps>>

(* VirtualMachine::reset = reset_core + reset_memory *)
Reset ==
    /\ Alive
    /\ vm_pc' = 0
    /\ vm_mp' = 0
    /\ vm_status' = "Idle"
    /\ vm_memory' = ZeroTape(Len(vm_memory))
    /\ exited' = FALSE
    /\ last' = Call("reset", "", vm_pc, "Ok", <<>>)
    /\ UNCHANGED <<scanVars, compileVars, interpVars, output, in_count, in_eof, build,
                   panic, behavior, vm_steps>>

(* VirtualMachine::reset_core *)
ResetCore ==
    /\ Alive
    /\ vm_pc' = 0
    /\ vm_mp' = 0
    /\ vm_status' = "Idle"
    /\ exited' = FALSE
    /\ last' = Call("reset_core", "", vm_pc, "Ok", <<>>)
    /\ UNCHANGED <<scanVars, compileVars, interpVars, output, in_count, in_eof, build,
                   panic, vm_memory, behavior, vm_steps>>

(* VirtualMachine::reset_memory *)
ResetMemory ==
    /\ Alive
    /\ vm_memory' = ZeroTape(Len(vm_memory))
    /\ last' = Call("reset_memory", "", vm_pc, "Ok", <<>>)
    /\ UNCHANGED <<scanVars, compileVars, interpVars, ioVars, build, panic,
                   vm_mp, vm_pc, vm_status, behavior, vm_steps>>

(* VirtualMachine::execute_instruction(instruction), lines 95-120 *)
ExecuteInstruction ==
    /\ Alive
    /\ vm_steps < MaxVmSteps
    /\ vm_steps' = vm_steps + 1
    /\ \E instruction \in Instruction :
       LET next_pc == vm_pc + 1
           done(p, bytes) ==
               last' = Call("execute_instruction", instruction.op, vm_pc,
                            IF p = "none" THEN "Ok" ELSE "Panic", bytes)
           advance(p) == vm_pc' = IF p = "none" THEN next_pc ELSE vm_pc
       IN
       IF ExecuteRefuses(vm_status)
       THEN /\ last' = Call("execute_instruction", instruction.op, vm_pc, "Err", <<>>)
            /\ UNCHANGED <<vm_memory, vm_mp, vm_pc, vm_status, ioVars, panic>>
       ELSE
       CASE instruction.op = "IncPtr" ->
              LET r == IncMp(vm_mp, Len(vm_memory), behavior, build)
              IN  /\ panic' = r.panic /\ vm_mp' = r.mp /\ advance(r.panic)
                  /\ done(r.panic, <<>>)
                  /\ UNCHANGED <<vm_memory, vm_status, ioVars>>
         [] instruction.op = "DecPtr" ->
              LET r == DecMp(vm_mp, Len(vm_memory), behavior, build)
              IN  /\ panic' = r.panic /\ vm_mp' = r.mp /\ advance(r.panic)
                  /\ done(r.panic, <<>>)
                  /\ UNCHANGED <<vm_memory, vm_status, ioVars>>
         [] instruction.op = "IncData" ->
              LET r == MemInc(vm_memory, vm_mp, build)
              IN  /\ panic' = r.panic /\ vm_memory' = r.mem /\ advance(r.panic)
                  /\ done(r.panic, <<>>)
                  /\ UNCHANGED <<vm_mp, vm_status, ioVars>>
         [] instruction.op = "DecData" ->
              LET r == MemDec(vm_memory, vm_mp, build)
              IN  /\ panic' = r.panic /\ vm_memory' = r.mem /\ advance(r.panic)
                  /\ done(r.panic, <<>>)
                  /\ UNCHANGED <<vm_mp, vm_status, ioVars>>
         [] instruction.op = "Output" ->
              \* self.write_byte()?
              /\ Len(output) < MaxOut
              /\ IF ~InBounds(vm_memory, vm_mp)
                 THEN /\ panic' = "index" /\ done("index", <<>>)
                      /\ UNCHANGED <<vm_pc, output>>
                 ELSE \/ /\ output' = output \o Encode(At(vm_memory, vm_mp))
                         /\ vm_pc' = next_pc
                         /\ done("none", Encode(At(vm_memory, vm_mp)))
                         /\ UNCHANGED panic
                      \/ /\ last' = Call("execute_instruction", "Output",
                                         vm_pc, "Err", <<>>)
                         /\ UNCHANGED <<vm_pc, output, panic>>
              /\ UNCHANGED <<vm_memory, vm_mp, vm_status, in_count, in_eof, exited>>
         [] instruction.op = "Input" ->
              \* self.read_byte(true)?
              /\ \E r \in ReadByteOutcomes(in_count, in_eof) :
                    /\ in_count' = in_count + r.taken
                    /\ in_eof' = r.eof
                    /\ CASE r.kind = "error" ->
                              /\ last' = Call("execute_instruction", "Input",
                                              vm_pc, "Err", <<>>)
                              /\ UNCHANGED <<vm_memory, vm_pc, panic>>
                         [] r.kind = "spin" ->
                              /\ panic' = "spin"
                              /\ last' = Call("execute_instruction", "Input",
                                              vm_pc, "Spin", <<>>)
                              /\ UNCHANGED <<vm_memory, vm_pc>>
                         [] r.kind = "byte" /\ ~InBounds(vm_memory, vm_mp) ->
                              /\ panic' = "index" /\ done("index", <<r.byte>>)
                              /\ UNCHANGED <<vm_memory, vm_pc>>
                         [] r.kind = "byte" /\ InBounds(vm_memory, vm_mp) ->
                              /\ vm_memory' = MemWr(vm_memory, vm_mp, r.byte)
                              /\ vm_pc' = next_pc
                              /\ done("none", <<r.byte>>)
                              /\ UNCHANGED panic
              /\ UNCHANGED <<vm_mp, vm_status, output, exited>>
         [] instruction.op \in {"JNZ", "JZ"} ->
              IF ~InBounds(vm_memory, vm_mp)
              THEN /\ panic' = "index" /\ done("index", <<>>)
                   /\ UNCHANGED <<vm_memory, vm_mp, vm_pc, vm_status, ioVars>>
              ELSE LET zero == At(vm_memory, vm_mp) = 0
                       taken == IF instruction.op = "JNZ" THEN ~zero ELSE zero
                   IN  /\ vm_pc' = IF taken THEN JumpTarget(instruction) ELSE next_pc
                       /\ done("none", <<>>)
                       /\ UNCHANGED <<vm_memory, vm_mp, vm_status, ioVars, panic>>
         [] instruction.op = "Exit" ->
              /\ vm_status' = ExitStatus
              /\ exited' = TRUE
              /\ vm_pc' = PcAfterSuspend(vm_pc)
              /\ done("none", <<>>)
              /\ UNCHANGED <<vm_memory, vm_mp, output, in_count, in_eof, panic>>
    /\ UNCHANGED <<scanVars, compileVars, interpVars, build, behavior>>

----------------------------------------------------------------------------
(* Specifications *)

(* Program::compile run token by token on every token stream *)
InitC ==
    /\ InitCompile
    /\ InitTokenizer({<<>>})
    /\ program = <<>> /\ env_memory = <<>> /\ env_mp = 0 /\ env_pc = 0
    /\ status = "Idle" /\ inrun = FALSE
    /\ vm_memory = <<>> /\ vm_mp = 0 /\ vm_pc = 0 /\ vm_status = "Idle"
    /\ behavior = "Unchecked" /\ vm_steps = 0
    /\ output = <<>> /\ in_count = 0 /\ in_eof = FALSE /\ exited = FALSE
    /\ build = "release" /\ panic = "none"
    /\ last = Call("new", "", 0, "Ok", <<>>)

NextC == CompileNext \/ CompileEnd

SpecC == InitC /\ [][NextC]_vars

(* An Interpreter over a compiled program, driven through its public calls *)
Init ==
    /\ InitInterpreter
    /\ InitTokenizer({<<>>})
    /\ vm_memory = <<>> /\ vm_mp = 0 /\ vm_pc = 0 /\ vm_status = "Idle"
    /\ behavior = "Unchecked" /\ vm_steps = 0

Next == Startup \/ Step \/ Run \/ RunStep \/ RunBreak \/ RunInput \/ RunOutput

Spec == Init /\ [][Next]_vars

(* A VirtualMachine driven through its public calls *)
InitV ==
    /\ InitVM
    /\ InitTokenizer({<<>>})
    /\ tokens = <<>> /\ tok_i = 0 /\ instructions = <<>>
    /\ open_bracket_stack = <<>> /\ result = Pending
    /\ program = <<>> /\ env_memory = <<>> /\ env_mp = 0 /\ env_pc = 0
    /\ status = "Idle" /\ inrun = FALSE
    /\ output = <<>> /\ in_count = 0 /\ in_eof = FALSE /\ exited = FALSE
    /\ build \in {"debug", "release"} /\ panic = "none"
    /\ last = Call("new", "", 0, "Ok", <<>>)

NextV == Wakeup \/ Reset \/ ResetCore \/ ResetMemory \/ ExecuteInstruction

SpecV == InitV /\ [][NextV]_vars

(* A Tokenizer iterated to its end over every short source and the test's
   source, then the same source compiled *)
InitT ==
    /\ InitTokenizer(SeqsUpTo(SrcChars, MaxSrc) \cup {TokenConversion})
    /\ tokens = <<>> /\ tok_i = 0 /\ instructions = <<>>
    /\ open_bracket_stack = <<>> /\ result = Pending
    /\ program = <<>> /\ env_memory = <<>> /\ env_mp = 0 /\ env_pc = 0
    /\ status = "Idle" /\ inrun = FALSE
    /\ vm_memory = <<>> /\ vm_mp = 0 /\ vm_pc = 0 /\ vm_status = "Idle"
    /\ behavior = "Unchecked" /\ vm_steps = 0
    /\ output = <<>> /\ in_count = 0 /\ in_eof = FALSE /\ exited = FALSE
    /\ build = "release" /\ panic = "none"
    /\ last = Call("new", "", 0, "Ok", <<>>)

NextT == TokenizerNext \/ CompileCall

SpecT == InitT /\ [][NextT]_vars

----------------------------------------------------------------------------
(* Bracket structure of a token stream, counted without a stack *)

Bracket(k) == IF k = "LeftBracket" THEN 1 ELSE IF k = "RightBracket" THEN -1 ELSE 0

(* nesting depth after the first n tokens *)
RECURSIVE DepthAfter(_, _)
DepthAfter(toks, n) == IF n = 0 THEN 0 ELSE DepthAfter(toks, n - 1) + Bracket(toks[n])

WellNested(toks) ==
    /\ \A n \in 0 .. Len(toks) : DepthAfter(toks, n) >= 0
    /\ DepthAfter(toks, Len(toks)) = 0

(* index of the ']' closing the '[' at index i *)
MatchOf(toks, i) ==
    CHOOSE j \in (i + 1) .. (Len(toks) - 1) :
        /\ DepthAfter(toks, j + 1) = DepthAfter(toks, i)
        /\ \A m \in (i + 1) .. (j - 1) : DepthAfter(toks, m + 1) > DepthAfter(toks, i)

OpenIndices(toks) == {i \in 0 .. (Len(toks) - 1) : At(toks, i) = "LeftBracket"}
NestingPairs(toks) == {<<i, MatchOf(toks, i)>> : i \in OpenIndices(toks)}

(* indices of the ']' tokens met with no '[' pending *)
UnmatchedCloses(toks) == {k \in 0 .. (Len(toks) - 1) : DepthAfter(toks, k + 1) < 0}
Least(S) == CHOOSE k \in S : \A m \in S : k <= m

----------------------------------------------------------------------------
(* Claims *)

StepDid(l, ins) == l.op = "step" /\ l.ins = ins /\ l.res = "Ok"

(* C1: when step executes a write-output instruction at address a, status
   becomes Waiting(Output) and program_counter stays a; program_counter moves
   to a+1 only when the pending output is consumed, and what the sink receives
   is the one byte held by the cell under data_pointer at that moment. *)
C1_OutputKeepsPcUntilConsumed ==
    [][ /\ StepDid(last', "Output") =>
              status' = "WaitingOutput" /\ env_pc' = last'.addr
        /\ (last'.op = "run_output" /\ last'.res = "Ok") =>
              /\ env_pc' = env_pc + 1
              /\ output' = Append(output, At(env_memory, env_mp)) ]_vars

(* C2: Halted is terminal: once Exit has been executed, no later call makes
   the machine Running again and program_counter, data_pointer and the tape
   never change. *)
C2_HaltedIsTerminal ==
    [][ exited => /\ status' # "Running"
                  /\ UNCHANGED <<env_pc, env_mp, env_memory>> ]_vars

(* C3: wakeup / startup succeeds only from Idle; called in any other status,
   or after halt, it fails and leaves status, program_counter, data_pointer
   and tape unchanged. *)
C3_WakeupOnlyFromIdle ==
    [][ (last'.op \in {"startup", "run"} /\ (status # "Idle" \/ exited)) =>
            /\ last'.res = "Err"
            /\ UNCHANGED <<status, env_pc, env_mp, env_memory>> ]_vars

(* C4: executing an instruction is valid only when status is Running: in every
   other status the call fails and leaves program_counter, data_pointer, tape
   and status unchanged. *)
C4_ExecuteOnlyWhenRunning ==
    [][ (last'.op = "execute_instruction" /\ vm_status # "Running") =>
            /\ last'.res = "Err"
            /\ UNCHANGED <<vm_pc, vm_mp, vm_memory, vm_status>> ]_vars

(* C5: when step executes a read-input instruction at address a, status
   becomes Waiting(Input) and the tape is unchanged; when byte b is then
   supplied, exactly the cell under data_pointer becomes b, program_counter
   is a+1 and status is Running. *)
C5_InputSuspendsThenStores ==
    [][ /\ StepDid(last', "Input") =>
              status' = "WaitingInput" /\ env_memory' = env_memory
        /\ (last'.op = "run_input" /\ last'.res = "Ok") =>
              /\ StepDid(last, "Input")
              /\ env_memory' = [env_memory EXCEPT ![env_mp + 1] = last'.bytes[1]]
              /\ \A c \in 0 .. (Len(env_memory) - 1) :
                    c # env_mp => At(env_memory', c) = At(env_memory, c)
              /\ env_mp' = env_mp
              /\ env_pc' = last.addr + 1
              /\ status' = "Running" ]_vars

(* C5 witness: the byte 65 was supplied to a pending read and stored. *)
C5_Witness ==
    /\ last.op = "run_input" /\ last.res = "Ok" /\ last.bytes = <<65>>
    /\ At(env_memory, env_mp) = 65
    /\ status = "Running"

(* C6: the machine suspends for I/O: the input source is read only while
   status is Waiting(Input), the output sink is written only while status is
   Waiting(Output), executing an instruction does neither, and a Waiting
   machine returns to Running only through the operation matching its
   reason. *)
C6_SuspendsForIO ==
    [][ /\ (in_count' # in_count \/ in_eof' # in_eof) => status = "WaitingInput"
        /\ output' # output => status = "WaitingOutput"
        /\ last'.op = "step" => output' = output /\ in_count' = in_count
        /\ (status = "WaitingInput" /\ status' = "Running") => last'.op = "run_input"
        /\ (status = "WaitingOutput" /\ status' = "Running") => last'.op = "run_output"
      ]_vars

(* C7: for every well-nested token stream compile yields a program in which,
   for each matched pair '[' at i and ']' at j, instruction i is JZ(j+1) and
   instruction j is JNZ(i); no JZ keeps the placeholder target, every jump
   target is at most the index of the trailing Exit, and the pairs read back
   from the targets are exactly the nesting pairs of the tokens. *)
C7_JumpTargetsMatchNesting ==
    (result.tag # "Pending" /\ WellNested(tokens)) =>
        LET p == result.program
            n == Len(tokens)
            jz == {i \in 0 .. (Len(p) - 1) : At(p, i).op = "JZ"}
            jnz == {j \in 0 .. (Len(p) - 1) : At(p, j).op = "JNZ"}
        IN  /\ result.tag = "Ok"
            /\ \A i \in OpenIndices(tokens) :
                  LET j == MatchOf(tokens, i)
                  IN  /\ i < j
                      /\ At(p, i) = Jmp("JZ", j + 1)
                      /\ At(p, j) = Jmp("JNZ", i)
            /\ \A i \in jz : At(p, i).addr # 0
            /\ \A i \in jz \cup jnz : At(p, i).addr \in 0 .. n
            /\ At(p, n).op = "Exit"
            /\ {<<i, At(p, i).addr - 1>> : i \in jz} = NestingPairs(tokens)
            /\ {<<At(p, j).addr, j>> : j \in jnz} = NestingPairs(tokens)

(* C7 witness: a stream with one loop nested in another has been compiled. *)
C7_Witness ==
    /\ result.tag = "Ok"
    /\ tokens = <<"LeftBracket", "LeftBracket", "RightBracket", "RightBracket">>

(* C8: compile succeeds iff the brackets are balanced; it fails with
   "No matching '['" at the first ']' met while no '[' is pending, otherwise
   with "Unmatched '['" when the tokens end with a '[' still pending; the two
   errors differ and a failure carries no program. *)
C8_CompileOkIffBalanced ==
    result.tag # "Pending" =>
        /\ result.tag = "Ok" <=> WellNested(tokens)
        /\ UnmatchedCloses(tokens) # {} =>
              /\ result = Err(ErrNoMatching)
              /\ tok_i = Least(UnmatchedCloses(tokens)) + 1
              /\ Len(instructions) = Least(UnmatchedCloses(tokens))
        /\ (UnmatchedCloses(tokens) = {} /\ DepthAfter(tokens, Len(tokens)) > 0) =>
              /\ result = Err(ErrUnmatched)
              /\ tok_i = Len(tokens)
        /\ ErrNoMatching # ErrUnmatched
        /\ result.tag = "Err" => result.program = <<>>

(* C8 witness: compile stopped at a ']' that follows a closed loop. *)
C8_Witness ==
    /\ result = Err(ErrNoMatching)
    /\ tokens = <<"LeftBracket", "RightBracket", "RightBracket", "LeftBracket">>

(* C9: increment-cell and decrement-cell are arithmetic modulo 256 on the cell
   under data_pointer and never fail: 255 + 1 gives 0, 0 - 1 gives 255, and
   execution continues with status Running and program_counter advanced. *)
C9_CellArithmeticWraps ==
    [][ /\ (last'.op = "step" /\ last'.ins = "IncData" /\ InBounds(env_memory, env_mp)) =>
              /\ last'.res = "Ok"
              /\ At(env_memory', env_mp) = (At(env_memory, env_mp) + 1) % ByteMod
              /\ status' = "Running" /\ env_pc' = env_pc + 1
        /\ (last'.op = "step" /\ last'.ins = "DecData" /\ InBounds(env_memory, env_mp)) =>
              /\ last'.res = "Ok"
              /\ At(env_memory', env_mp) = (At(env_memory, env_mp) + ByteMod - 1) % ByteMod
              /\ status' = "Running" /\ env_pc' = env_pc + 1 ]_vars

(* C10: a move-pointer-forward at data_pointer = tape length - 1, or a
   move-pointer-backward at data_pointer = 0, is fatal at that instruction:
   execution never continues with data_pointer outside the tape. *)
C10_PointerNeverLeavesTape ==
    [][ /\ (last'.op = "step" /\ last'.ins = "IncPtr" /\ env_mp = Len(env_memory) - 1) =>
              last'.res = "Panic"
        /\ (last'.op = "step" /\ last'.ins = "DecPtr" /\ env_mp = 0) =>
              last'.res = "Panic"
        /\ InBounds(env_memory', env_mp') ]_vars


VmDid(l, ins) == l.op = "execute_instruction" /\ l.ins = ins

(* C11: under Saturate with tape length L >= 1, data_pointer is always in
   0..L-1; a forward move at L-1 and a backward move at 0 leave it unchanged,
   every other move changes it by exactly one; with L = 1 it stays 0 after
   any number of forward moves. *)
C11_SaturateClamps ==
    [][ behavior = "Saturate" =>
          LET L == Len(vm_memory)
          IN  /\ L >= 1 /\ vm_mp \in 0 .. (L - 1) /\ vm_mp' \in 0 .. (L - 1)
              /\ VmDid(last', "IncPtr") =>
                    /\ last'.res = "Ok"
                    /\ vm_mp' = IF vm_mp = L - 1 THEN vm_mp ELSE vm_mp + 1
              /\ VmDid(last', "DecPtr") =>
                    /\ last'.res = "Ok"
                    /\ vm_mp' = IF vm_mp = 0 THEN vm_mp ELSE vm_mp - 1
              /\ (L = 1 /\ VmDid(last', "IncPtr")) => vm_mp' = 0 ]_vars

(* C11 witness: on a one-cell Saturate tape two forward moves have been
   executed and the pointer is still on cell 0. *)
C11_Witness ==
    /\ behavior = "Saturate" /\ Len(vm_memory) = 1
    /\ VmDid(last, "IncPtr") /\ last.res = "Ok" /\ last.addr = 1
    /\ vm_pc = 2 /\ vm_steps = 2 /\ vm_mp = 0

(* n forward (backward) moves from mp under the machine's policy *)
RECURSIVE Forward(_, _, _, _, _)
Forward(mp, len, policy, b, n) ==
    IF n = 0 THEN mp ELSE Forward(IncMp(mp, len, policy, b).mp, len, policy, b, n - 1)
RECURSIVE Backward(_, _, _, _, _)
Backward(mp, len, policy, b, n) ==
    IF n = 0 THEN mp ELSE Backward(DecMp(mp, len, policy, b).mp, len, policy, b, n - 1)

(* C12: under Wrap with tape length N >= 1 pointer moves are arithmetic
   modulo N: forward from N-1 lands on 0, backward from 0 lands on N-1,
   data_pointer is always in 0..N-1, N forward moves (and N backward moves)
   from any cell return to it, and forward then backward is the identity. *)
C12_WrapIsModular ==
    [][ behavior = "Wrap" =>
          LET N == Len(vm_memory)
          IN  /\ N >= 1 /\ vm_mp \in 0 .. (N - 1) /\ vm_mp' \in 0 .. (N - 1)
              /\ VmDid(last', "IncPtr") =>
                    /\ last'.res = "Ok"
                    /\ vm_mp' = (vm_mp + 1) % N
                    /\ vm_mp = N - 1 => vm_mp' = 0
              /\ VmDid(last', "DecPtr") =>
                    /\ last'.res = "Ok"
                    /\ vm_mp' = (vm_mp + N - 1) % N
                    /\ vm_mp = 0 => vm_mp' = N - 1
              /\ Forward(vm_mp', N, behavior, build, N) = vm_mp'
              /\ Backward(vm_mp', N, behavior, build, N) = vm_mp'
              /\ DecMp(IncMp(vm_mp', N, behavior, build).mp, N, behavior, build).mp
                    = vm_mp' ]_vars

(* C12 witness: on a two-cell Wrap tape a backward move from cell 0 landed on
   cell 1. *)
C12_Witness ==
    /\ behavior = "Wrap" /\ Len(vm_memory) = 2
    /\ VmDid(last, "DecPtr") /\ last.res = "Ok" /\ last.addr = 0
    /\ vm_mp = 1 /\ vm_steps = 1

(* C13: reset, called in any reachable state, yields the state of a freshly
   constructed machine: status Idle, program_counter 0, data_pointer 0, every
   cell 0, tape length and settings unchanged; a following wakeup succeeds
   and execution restarts from instruction 0. *)
C13_ResetRestoresFreshState ==
    [][ /\ last'.op = "reset" =>
              /\ vm_status' = "Idle" /\ vm_pc' = 0 /\ vm_mp' = 0
              /\ vm_memory' = ZeroTape(Len(vm_memory))
              /\ Len(vm_memory') = Len(vm_memory)
              /\ behavior' = behavior
              /\ ~WakeupRefuses(vm_status')
        /\ (last.op = "reset" /\ last'.op = "wakeup") =>
              last'.res = "Ok" /\ vm_status' = "Running" /\ vm_pc' = 0
        /\ (last.op = "reset" /\ last'.op = "execute_instruction") =>
              last'.addr = 0 ]_vars

(* C13 witness: reset was called on a machine that had halted with a written
   tape and a moved program counter. *)
C13_Witness ==
    /\ last.op = "reset" /\ last.addr = 2
    /\ vm_steps = 2 /\ vm_pc = 0 /\ vm_status = "Idle"
    /\ vm_memory = ZeroTape(Len(vm_memory))


(* C14: executing the halt instruction at address a ends execution and leaves
   program_counter equal to a; data_pointer and tape are unchanged. *)
C14_HaltLeavesPc ==
    [][ StepDid(last', "Exit") =>
            /\ status' # "Running"
            /\ env_pc' = last'.addr
            /\ env_mp' = env_mp /\ env_memory' = env_memory ]_vars

(* C15: driven by the run loop, the output sink receives exactly one byte per
   executed write-output instruction, equal to the cell under data_pointer,
   and nothing else; when run returns the machine has halted and is neither
   Waiting nor Running. *)
C15_RunDeliversOneBytePerWrite ==
    [][ /\ output' # output => (inrun /\ last'.op = "run_output")
        /\ (inrun /\ last'.op = "run_output" /\ last'.res = "Ok") =>
              /\ Len(output') = Len(output) + 1
              /\ output'[Len(output')] = At(env_memory, env_mp)
        /\ (last'.op = "run_return" /\ last'.res = "Ok") =>
              exited' /\ status' \notin {"Running", "WaitingInput", "WaitingOutput"}
      ]_vars

(* C16: for the program ',' '.' halt and every first input byte b, the byte
   stored by the read and then emitted by the write is b itself (b = 10 and
   b = 0 included), and the machine halts afterwards. *)
C16_EchoPassesFirstByte ==
    [][ (tokens = <<"Comma", "Dot">> /\ inrun) =>
          /\ (last'.op = "run_input" /\ in_count = 0 /\ in_count' > 0) =>
                \* the source's first byte is the one stored
                /\ in_count' = 1
                /\ last'.res = "Ok"
                /\ At(env_memory', env_mp') = last'.bytes[1]
          /\ (last'.op = "run_output" /\ last'.res = "Ok") =>
                output' = <<At(env_memory, env_mp)>> ]_vars

(* the instruction the fixed mapping gives for a token kind *)
MappedOp(k) ==
    CASE k = "RightBrace" -> "IncPtr"
      [] k = "LeftBrace" -> "DecPtr"
      [] k = "Plus" -> "IncData"
      [] k = "Minus" -> "DecData"
      [] k = "Dot" -> "Output"
      [] k = "Comma" -> "Input"
      [] k = "LeftBracket" -> "JZ"
      [] k = "RightBracket" -> "JNZ"

(* C17: for every successfully compiled source of n tokens the program has
   exactly n+1 instructions: instruction k is the image of token k under the
   fixed mapping for every k < n, and Exit occurs exactly once, at index n. *)
C17_OneInstructionPerToken ==
    result.tag = "Ok" =>
        LET p == result.program
            n == Len(tokens)
        IN  /\ Len(p) = n + 1
            /\ \A k \in 0 .. (n - 1) : At(p, k).op = MappedOp(At(tokens, k))
            /\ {k \in 0 .. (Len(p) - 1) : At(p, k).op = "Exit"} = {n}
            /\ p = instructions

(* C17 witness: a four-token source with a loop has been compiled. *)
C17_Witness ==
    /\ result.tag = "Ok"
    /\ tokens = <<"Comma", "LeftBracket", "Dot", "RightBracket">>
    /\ Len(result.program) = 5


----------------------------------------------------------------------------
(* Positions in a source text, counted on the text itself.  p is 1-based. *)

Max(S) == CHOOSE x \in S : \A y \in S : y <= x

(* 1-based line number of position p *)
RowOf(src, p) == 1 + Cardinality({q \in 1 .. (p - 1) : src[q] = "\n"})

(* position of the first character of p's line *)
LineStart(src, p) == 1 + Max({0} \cup {q \in 1 .. (p - 1) : src[q] = "\n"})

(* 1-based character position of p within its line *)
ColOf(src, p) == p - LineStart(src, p) + 1

(* p lies on a line whose first character is '#' *)
OnCommentLine(src, p) == src[LineStart(src, p)] = "#"

(* p is a '#' or has a '#' before it on its line *)
AfterMarker(src, p) == \E q \in LineStart(src, p) .. p : src[q] = "#"

SymbolKind ==
    [c \in Symbols |->
        CASE c = "+" -> "Plus"      [] c = "-" -> "Minus"
          [] c = "<" -> "LeftBrace" [] c = ">" -> "RightBrace"
          [] c = "." -> "Dot"       [] c = "," -> "Comma"
          [] c = "[" -> "LeftBracket" [] c = "]" -> "RightBracket"]

(* the token a symbol at position p should come out as *)
TokenAt(src, p) == Token(SymbolKind[src[p]], RowOf(src, p), ColOf(src, p))

(* the tokens among the items yielded *)
TokensOf(items) == SelectSeq(items, LAMBDA it : it.tag = "Token")

(* toks is exactly the tokens of the positions P of src, in source order *)
TokensMatch(toks, src, P) ==
    /\ Len(toks) = Cardinality(P)
    /\ \A p \in P : toks[1 + Cardinality({q \in P : q < p})] = TokenAt(src, p)

(* position in the source of the character whose item next() last returned *)
Consumed == Len(source) - Len(reader) - Len(chars) + current_char_n

(* C18 as stated, a comment being a line that begins with '#': once the scan
   has ended, the tokens yielded are those of the symbol characters not on a
   comment line, in source order, each with its 1-based row and column. *)
C18_TokenPerSymbolOutsideCommentLines ==
    scan_end =>
        TokensMatch(TokensOf(yielded), source,
                    {p \in 1 .. Len(source) :
                        source[p] \in Symbols /\ ~OnCommentLine(source, p)})

(* C18 amended, a comment running from a '#' anywhere in a line to the end of
   that line: once the scan has ended, the tokens yielded are those of the
   symbol characters with no '#' before them on their line, in source order,
   each with its 1-based row and column counted on the original source; rows
   never decrease along the tokens and columns strictly increase within a
   row; "+-[]<>.," gives columns 1..8 on row 1. *)
C18_TokenPerSymbolBeforeMarker ==
    scan_end =>
        LET toks == TokensOf(yielded)
        IN  /\ TokensMatch(toks, source,
                           {p \in 1 .. Len(source) :
                               source[p] \in Symbols /\ ~AfterMarker(source, p)})
            /\ \A i \in 1 .. (Len(toks) - 1) :
                   /\ toks[i].row <= toks[i + 1].row
                   /\ toks[i].row = toks[i + 1].row => toks[i].col < toks[i + 1].col
            /\ source = TokenConversion =>
                   /\ Len(toks) = 8
                   /\ \A i \in 1 .. 8 : toks[i].row = 1 /\ toks[i].col = i

(* C18 witness: "+#\n." has been scanned to its end: the '+' came out at 1:1,
   the rest of line 1 was dropped and the '.' came out at 2:1. *)
C18_Witness ==
    /\ scan_end
    /\ source = <<"+", "#", "\n", ".">>
    /\ yielded = <<Token("Plus", 1, 1), Token("Dot", 2, 1)>>

(* C19: every non-whitespace character that is none of the eight symbols and
   is not on a line beginning with '#' (a '#' in the middle of a line
   included) makes next() return a LexError carrying that character and its
   1-based row and column, and makes Program::compile fail without returning
   a program. *)
C19_LexErrorCarriesCharRowCol ==
    (scan_end /\ last.op = "compile") =>
        \A p \in 1 .. Len(source) :
            (source[p] \notin (Whitespace \cup Symbols) /\ ~OnCommentLine(source, p)) =>
                /\ \E i \in 1 .. Len(yielded) :
                       /\ yielded[i].tag = "Err"
                       /\ yielded[i].args =
                              <<source[p], RowOf(source, p), ColOf(source, p)>>
                /\ result.tag = "Err"
                /\ result.program = <<>>

(* C20: for a source line whose first character is '#', next() returns no
   token and no error from any character of that line, whatever follows the
   marker; scanning goes on with the next line, and the tokens of the lines
   after it carry row numbers that count the comment line. *)
C20_CommentLineSkippedAndCounted ==
    [][ last'.op = "next" =>
          /\ last'.res # "None" =>
                /\ ~OnCommentLine(source, Consumed')
                /\ Len(yielded') = Len(yielded) + 1
          /\ last'.res = "Token" =>
                yielded'[Len(yielded')].row = RowOf(source, Consumed')
          /\ scan_end' =>
                \A p \in 1 .. Len(source) :
                    ( /\ source[p] \in Symbols
                      /\ ~AfterMarker(source, p)
                      /\ \E q \in 1 .. (p - 1) :
                            /\ LineStart(source, q) = q
                            /\ source[q] = "#"
                            /\ RowOf(source, q) < RowOf(source, p) ) =>
                        \E i \in 1 .. Len(yielded') :
                            yielded'[i] = TokenAt(source, p)
      ]_vars

(* C20 witness: "#x\n+" has been scanned to its end: nothing came out of the
   comment line and the '+' came out at 2:1. *)
C20_Witness ==
    /\ scan_end
    /\ source = <<"#", "x", "\n", "+">>
    /\ yielded = <<Token("Plus", 2, 1)>>

(* C21: instruction fetch never indexes outside the program: in every state
   reached by startup, step, run and the serving of pending I/O on an
   Interpreter holding a compiled program, whenever status is Running the
   program counter is a valid index, 0 <= pc < program length, also after the
   program has run to its Exit once and the machine is started again. *)
C21_RunningPcInsideProgram ==
    status = "Running" => env_pc \in 0 .. (Len(program) - 1)

(* C22: serving a pending input always terminates: whatever finite byte
   sequence the input source holds, an empty one and one ending in a newline
   included, read_byte(true) returns a byte or an error after finitely many
   reads, so run's Waiting(Input) arm never loops forever. *)
C22_ReadByteReturns ==
    [][ last'.op = "run_input" =>
          /\ last'.res \in {"Ok", "Err", "Panic"}
          /\ panic' # "spin" ]_vars

====
